---- MODULE Spec2Model ----
(***************************************************************************)
(* Model of dem-fill-serverless: the RunPod job handler (handler.py) and   *)
(* the submission client's completion wait (client_example.py).            *)
(*                                                                         *)
(* Text is a sequence of tokens.  The tokens "/" and "." are the path      *)
(* separator and the extension separator; every other token stands for a   *)
(* run of characters containing neither.                                   *)
(***************************************************************************)
EXTENDS Integers, Sequences, FiniteSets, TLC

VARIABLES env, s3store, dirs, files, pc, loc, result, ops,
          cpc, timeout, poll_interval, now, start_time, status_response,
          seen, sleeps, pollTime, retval,
          mpc, args, exit_code, mlog

hvars == <<env, s3store, dirs, files, pc, loc, result, ops>>
mvars == <<mpc, args, exit_code, mlog>>
cvars == <<cpc, timeout, poll_interval, now, start_time, status_response,
           seen, sleeps, pollTime, retval, mpc, args, exit_code, mlog>>
vars == <<env, s3store, dirs, files, pc, loc, result, ops,
          cpc, timeout, poll_interval, now, start_time, status_response,
          seen, sleeps, pollTime, retval, mpc, args, exit_code, mlog>>

---------------------------------------------------------------------------
(* Bounds *)

NumInvocations == 2
MaxExitCode == 1
MaxTimeout == 3
MaxPollInterval == 2
MaxPollTime == 1

Invs == 1..NumInvocations

---------------------------------------------------------------------------
(* Python string helpers *)

SEP == "/"
EXTSEP == "."

RECURSIVE rstrip(_, _)
\* str.rstrip(c): drop every trailing occurrence of c
rstrip(s, c) ==
    IF s = <<>> THEN s
    ELSE IF s[Len(s)] = c THEN rstrip(SubSeq(s, 1, Len(s) - 1), c)
    ELSE s

\* str.rfind(c), 1-based; 0 when c does not occur
rfind(s, c) ==
    LET hits == {k \in 1..Len(s) : s[k] = c}
    IN IF hits = {} THEN 0 ELSE CHOOSE k \in hits : \A j \in hits : j <= k

\* os.path.splitext: split at the last dot of the last component, leading
\* dots of that component do not start an extension
splitext(p) ==
    LET sepIndex == rfind(p, SEP)
        dotIndex == rfind(p, EXTSEP)
    IN IF /\ dotIndex > sepIndex
          /\ \E k \in (sepIndex + 1)..(dotIndex - 1) : p[k] # EXTSEP
       THEN <<SubSeq(p, 1, dotIndex - 1), SubSeq(p, dotIndex, Len(p))>>
       ELSE <<p, <<>> >>

\* os.path.basename
basename(p) == SubSeq(p, rfind(p, SEP) + 1, Len(p))

\* os.path.dirname
dirname(p) ==
    LET i == rfind(p, SEP)
        head == SubSeq(p, 1, i)
    IN IF head # <<>> /\ \E k \in 1..Len(head) : head[k] # SEP
       THEN rstrip(head, SEP) ELSE head

\* os.path.join(a, b)
path_join(a, b) ==
    IF b # <<>> /\ b[1] = SEP THEN b
    ELSE IF a = <<>> \/ a[Len(a)] = SEP THEN a \o b
    ELSE a \o <<SEP>> \o b

\* s contains t as a contiguous substring
Contains(s, t) ==
    \E k \in 1..(Len(s) - Len(t) + 1) : SubSeq(s, k, k + Len(t) - 1) = t

---------------------------------------------------------------------------
(* Python values of the local `filename` *)

Unbound == [t |-> "unbound", v |-> <<>>]
PyNone == [t |-> "None", v |-> <<>>]
PyStr(s) == [t |-> "str", v |-> s]

\* a test for "is a string" in place of the truthiness test
truthy_is_str(x) == x.t = "str"

\* truthiness of a value
Truthy(x) == x.t = "str" /\ x.v # <<>>

\* f"{x}"
format(x) == IF x.t = "None" THEN <<"None">> ELSE x.v

---------------------------------------------------------------------------
(* Configuration *)

Envs ==
    { [DEM_INPUT_PREFIX |-> <<"to-process", "/">>,
       DEM_OUTPUT_PREFIX |-> <<"completed", "/">>],
      [DEM_INPUT_PREFIX |-> <<"to-process">>,
       DEM_OUTPUT_PREFIX |-> <<"completed", "/", "/">>] }

INPUT_PREFIX == env.DEM_INPUT_PREFIX
OUTPUT_PREFIX == env.DEM_OUTPUT_PREFIX
S3_INPUT_PREFIX == env.DEM_INPUT_PREFIX
S3_OUTPUT_PREFIX == env.DEM_OUTPUT_PREFIX

OutputDir == <<"/", "workspace", "/", "shared", "/", "dem-fill", "/", "output">>

---------------------------------------------------------------------------
(* Inputs of the handler *)

Filenames ==
    { <<"a", ".", "tif">>, <<".", "c">>,
      <<"d", "/", "a", ".", "tif">>, <<"/", "tmp", "/", "x", ".", "tif">> }

\* shapes of the event argument: not a dict at all, a dict without "input",
\* an input without "filename", an input with a filename (possibly empty);
\* filename is <<>> where the shape has none
Events ==
    { [kind |-> k, filename |-> <<>>] :
        k \in {"not_a_dict", "no_input", "no_filename", "filename_str"} }
    \cup { [kind |-> "filename_str", filename |-> f] : f \in Filenames }

NoEvent == [kind |-> "none", filename |-> <<>>]

---------------------------------------------------------------------------
(* Exceptions: type, str(e) and the attributes of CalledProcessError *)

Exc(type, text) ==
    [type |-> type, text |-> text, returncode |-> 0,
     stdout |-> <<>>, stderr |-> <<>>]

cmd(input_path) ==
    <<"python run.py -p test -c ", "/workspace/shared/dem-fill/config/dem_completion.json",
      " --resume_state ", "/workspace/shared/dem-fill/pretrained/20",
      " --n_timestep 100 --input_img ">> \o input_path

CalledProcessError(input_path, rc, out, err) ==
    [type |-> "CalledProcessError",
     text |-> <<"Command ">> \o cmd(input_path)
              \o <<" returned non-zero exit status ", ToString(rc), ".">>,
     returncode |-> rc, stdout |-> out, stderr |-> err]

\* traceback.format_exc()
format_exc(e) ==
    <<"Traceback (most recent call last): ", e.type, ": ">> \o e.text

---------------------------------------------------------------------------
(* Local file system and bucket *)

tmpdir(i) == <<"/", "tmp", "/", "tmp", ToString(i)>>

Under(p, d) == Len(p) > Len(d) /\ SubSeq(p, 1, Len(d) + 1) = d \o <<SEP>>

exists(fs, p) == \E f \in fs : f.path = p

write(fs, p, body) == {f \in fs : f.path # p} \cup {[path |-> p, body |-> body]}

body_of(fs, p) == (CHOOSE f \in fs : f.path = p).body

has_key(bucket, k) == \E o \in bucket : o.key = k

put_object(bucket, k, body) ==
    {o \in bucket : o.key # k} \cup {[key |-> k, body |-> body]}

get_object(bucket, k) == (CHOOSE o \in bucket : o.key = k).body

\* a working directory that is created and never removed
exit_dirs_kept(ds, i) == ds

\* TemporaryDirectory.__exit__ when the with-block of line 137 is left, by
\* return or by exception: remove the directory and everything in it
exit_dirs(ds, i) == ds \ {tmpdir(i)}
exit_files(fs, i) == {f \in fs : ~Under(f.path, tmpdir(i))}

---------------------------------------------------------------------------
(* client_example.py: keys the client uses *)

\* upload_to_process: key = f"{S3_INPUT_PREFIX}{filename}"
upload_to_process_key(filename) == S3_INPUT_PREFIX \o filename

\* check_output_exists: key = f"{S3_OUTPUT_PREFIX}{filename}"
check_output_exists_key(filename) == S3_OUTPUT_PREFIX \o filename

---------------------------------------------------------------------------
(* handler.py: handler(event) *)

NoResult == [status |-> "none"]

NoBody == [kind |-> "none", of |-> <<>>, by |-> 0]

\* the locals of handler(), with two records of what happened: whether this
\* invocation's inference wrote its output file, and the content uploaded
InitLocals ==
    [event |-> NoEvent, filename |-> Unbound, input_key |-> <<>>,
     output_key |-> <<>>, local_in |-> <<>>, processed_file |-> <<>>,
     processed_filename |-> <<>>, expected_output_path |-> <<>>,
     wrote |-> FALSE, uploaded |-> NoBody]

\* lines 122-126: what the lookups bind and raise
\* event.get("input") or {}; job_input.get("filename"); if not filename: raise
parse_filename(ev) ==
    CASE ev.kind = "not_a_dict" -> Unbound
      [] ev.kind \in {"no_input", "no_filename"} -> PyNone
      [] OTHER -> PyStr(ev.filename)

parse_error(ev) ==
    CASE ev.kind = "not_a_dict" ->
            Exc("AttributeError", <<"'NoneType' object has no attribute 'get'">>)
      [] OTHER -> Exc("ValueError", <<"Missing 'filename' in event['input'].">>)

\* line 130: f"{INPUT_PREFIX.rstrip('/')}/{filename}"
input_key_of(filename) == rstrip(INPUT_PREFIX, SEP) \o <<SEP>> \o filename

\* line 131: f"{OUTPUT_PREFIX.rstrip('/')}/{filename}"
provisional_output_key(filename) == rstrip(OUTPUT_PREFIX, SEP) \o <<SEP>> \o filename

\* lines 156-157 (and 52-53): f"{name}_processed{ext}"
processed_name(filename) ==
    LET ne == splitext(filename) IN ne[1] \o <<"_processed">> \o ne[2]

\* the upload key built the way line 131 builds the provisional key
final_output_key_stripped(processed_filename) ==
    rstrip(OUTPUT_PREFIX, SEP) \o <<SEP>> \o processed_filename

\* line 176: f"{OUTPUT_PREFIX}{processed_filename}"
final_output_key(processed_filename) == OUTPUT_PREFIX \o processed_filename

\* an except clause that never names the file
error_result_no_name(l, e) ==
    [status |-> "error",
     message |-> <<"Error processing ", "unknown file", ": ">> \o e.text,
     error_type |-> e.type,
     traceback |-> format_exc(e)]

\* lines 196-206: the except clause builds the error result
error_result(l, e) ==
    [status |-> "error",
     message |-> <<"Error processing ">>
                 \o (IF l.filename.t # "unbound" THEN format(l.filename)
                     ELSE <<"unknown file">>)
                 \o <<": ">> \o e.text,
     error_type |-> e.type,
     traceback |-> format_exc(e)]

\* lines 183-191
success_result(l) ==
    [status |-> "success",
     message |-> <<"DEM inpainting completed successfully">>,
     bucket |-> "S3_BUCKET",
     input_key |-> l.input_key,
     output_key |-> l.output_key,
     input_filename |-> l.filename.v,
     output_filename |-> l.processed_filename]

\* an except clause that converts validation errors only
caught_only_value_error(e) == e.type = "ValueError"

\* which exceptions the except clause of line 196 converts into a result
caught(e) == TRUE

\* an exception leaves the try body of invocation i with locals l
HandlerExcept(i, l, e) ==
    /\ loc' = [loc EXCEPT ![i] = l]
    /\ IF caught(e)
       THEN /\ pc' = [pc EXCEPT ![i] = "returned"]
            /\ result' = [result EXCEPT ![i] = error_result(l, e)]
       ELSE /\ pc' = [pc EXCEPT ![i] = "raised"]
            /\ UNCHANGED result

\* history of the external operations of invocation i: the operation, its
\* argument and its outcome (0 success, otherwise the exit code or 1)
Log(i, op, arg, rc) ==
    ops' = [ops EXCEPT ![i] = Append(@, [op |-> op, arg |-> arg, rc |-> rc])]

\* lines 119-139: read the event, validate, compute keys, enter the with-block
Receive(i, ev) ==
    /\ pc[i] = "idle"
    /\ LET fn == parse_filename(ev)
           l0 == [loc[i] EXCEPT !.event = ev, !.filename = fn]
       IN IF ~Truthy(fn)
          THEN /\ HandlerExcept(i, l0, parse_error(ev))
               /\ UNCHANGED <<dirs, files, ops>>
          ELSE /\ loc' = [loc EXCEPT ![i] =
                            [l0 EXCEPT !.input_key = input_key_of(fn.v),
                                       !.output_key = provisional_output_key(fn.v),
                                       !.local_in = path_join(tmpdir(i), fn.v)]]
               /\ dirs' = dirs \cup {tmpdir(i)}
               /\ Log(i, "mkdtemp", tmpdir(i), 0)
               /\ pc' = [pc EXCEPT ![i] = "download"]
               /\ UNCHANGED <<files, result>>
    /\ UNCHANGED <<env, s3store>>

\* line 143: s3.download_file(S3_BUCKET, input_key, local_in)
Download(i) ==
    /\ pc[i] = "download"
    /\ \/ /\ has_key(s3store, loc[i].input_key)
          /\ Log(i, "download", loc[i].input_key, 0)
          /\ dirname(loc[i].local_in) \in dirs
          /\ files' = write(files, loc[i].local_in, get_object(s3store, loc[i].input_key))
          /\ pc' = [pc EXCEPT ![i] = "infer"]
          /\ UNCHANGED <<dirs, loc, result>>
       \/ /\ Log(i, "download", loc[i].input_key, 1)
          /\ HandlerExcept(i, loc[i],
                Exc("ClientError", <<"An error occurred when calling the HeadObject operation">>))
          /\ dirs' = exit_dirs(dirs, i)
          /\ files' = exit_files(files, i)
    /\ UNCHANGED <<env, s3store>>

\* lines 52-53 of run_dem_inpainting: where the inference is expected to write
inference_output_path(input_path) ==
    path_join(OutputDir, processed_name(basename(input_path)))

\* check=False: the exit code is ignored
inference_raises_never(rc) == FALSE

\* line 82, check=True: a non-zero exit code raises CalledProcessError
inference_raises(rc) == rc # 0

\* line 152, run_dem_inpainting(local_in): lines 46-101.  The subprocess is a
\* black box: it may fail to start, exit with any code, and write its output
\* file or not.
RunInference(i) ==
    /\ pc[i] = "infer"
    /\ \/ \* subprocess.run could not start the program
          /\ Log(i, "spawn", loc[i].local_in, 1)
          /\ HandlerExcept(i, loc[i],
                Exc("FileNotFoundError", <<"No such file or directory: 'python'">>))
          /\ dirs' = exit_dirs(dirs, i)
          /\ files' = exit_files(files, i)
       \/ \E rc \in 0..MaxExitCode, wrote \in BOOLEAN :
            LET out == inference_output_path(loc[i].local_in)
                fs == IF wrote
                      THEN write(files, out,
                                 [kind |-> "output", of |-> basename(loc[i].local_in), by |-> i])
                      ELSE files
                l1 == [loc[i] EXCEPT !.wrote = wrote]
            IN /\ Log(i, "run", loc[i].local_in, rc)
               /\ IF ~inference_raises(rc)
                  THEN \* line 95: return expected_output_path
                       /\ loc' = [loc EXCEPT ![i] = [l1 EXCEPT !.processed_file = out]]
                       /\ files' = fs
                       /\ pc' = [pc EXCEPT ![i] = "verify"]
                       /\ UNCHANGED <<dirs, result>>
                  ELSE \* lines 97-101: log and re-raise CalledProcessError
                       /\ HandlerExcept(i, l1,
                             CalledProcessError(loc[i].local_in, rc, <<"stdout">>, <<"stderr">>))
                       /\ dirs' = exit_dirs(dirs, i)
                       /\ files' = exit_files(fs, i)
    /\ UNCHANGED <<env, s3store>>

\* the existence check left out
output_missing_never(fs, p) == FALSE

\* line 170: if not os.path.exists(expected_output_path)
output_missing(fs, p) == ~exists(fs, p)

\* lines 156-171: derive the expected output path and check that it exists
Verify(i) ==
    /\ pc[i] = "verify"
    /\ LET processed_filename == processed_name(loc[i].filename.v)
           expected_output_path == OutputDir \o <<SEP>> \o processed_filename
           l1 == [loc[i] EXCEPT !.processed_filename = processed_filename,
                                !.expected_output_path = expected_output_path]
       IN /\ Log(i, "exists", expected_output_path,
                 IF exists(files, expected_output_path) THEN 0 ELSE 1)
          /\ IF output_missing(files, expected_output_path)
             THEN /\ HandlerExcept(i, l1,
                       Exc("RuntimeError",
                           <<"Expected output file ">> \o expected_output_path
                           \o <<" was not created by inference">>))
                  /\ dirs' = exit_dirs(dirs, i)
                  /\ files' = exit_files(files, i)
             ELSE /\ loc' = [loc EXCEPT ![i] = l1]
                  /\ pc' = [pc EXCEPT ![i] = "upload"]
                  /\ UNCHANGED <<dirs, files, result>>
    /\ UNCHANGED <<env, s3store>>

\* lines 173-194: upload under the processed key, leave the with-block, return
Upload(i) ==
    /\ pc[i] = "upload"
    /\ LET l1 == [loc[i] EXCEPT !.output_key = final_output_key(loc[i].processed_filename)]
       IN /\ \/ /\ exists(files, l1.expected_output_path)
                /\ Log(i, "upload", l1.output_key, 0)
                /\ s3store' = put_object(s3store, l1.output_key,
                                         body_of(files, l1.expected_output_path))
                /\ loc' = [loc EXCEPT ![i] =
                             [l1 EXCEPT !.uploaded = body_of(files, l1.expected_output_path)]]
                /\ result' = [result EXCEPT ![i] = success_result(l1)]
                /\ pc' = [pc EXCEPT ![i] = "returned"]
             \/ /\ Log(i, "upload", l1.output_key, 1)
                /\ HandlerExcept(i, l1,
                     Exc("S3UploadFailedError", <<"Failed to upload ">> \o l1.expected_output_path))
                /\ UNCHANGED s3store
          /\ dirs' = exit_dirs(dirs, i)
          /\ files' = exit_files(files, i)
    /\ UNCHANGED env

---------------------------------------------------------------------------
(* client_example.py: check_job_status and wait_for_completion *)

NoneVal == [t |-> "None"]
Dict(d) == [t |-> "dict", v |-> d]
NotReturned == [t |-> "unset"]

\* dict.get(key): the value, or None when the key is absent
get_output(resp) == IF resp.has_output THEN Dict(resp.output) ELSE NoneVal

\* what resp.json() can hold, and the dict built at line 157 when the
\* request raises
Responses ==
    { [status |-> st, has_output |-> FALSE, output |-> [status |-> "none"], has_error |-> FALSE] :
        st \in {"IN_QUEUE", "IN_PROGRESS", "CANCELLED", "COMPLETED"} }
    \cup { [status |-> "COMPLETED", has_output |-> TRUE, output |-> [status |-> os], has_error |-> FALSE] :
        os \in {"success", "error"} }
    \cup { [status |-> "FAILED", has_output |-> FALSE, output |-> [status |-> "none"], has_error |-> he] :
        he \in BOOLEAN }

\* lines 155-157: a failed request becomes the UNKNOWN status
UnknownResponse ==
    [status |-> "UNKNOWN", has_output |-> FALSE, output |-> [status |-> "none"], has_error |-> TRUE]

NoResponse ==
    [status |-> "none", has_output |-> FALSE, output |-> [status |-> "none"], has_error |-> FALSE]

Terminal == {"COMPLETED", "FAILED"}

\* a loop that still polls when the elapsed time equals the timeout
loop_continues_inclusive(t, start, limit) == t - start <= limit

\* line 175: the loop condition
loop_continues(t, start, limit) == t - start < limit

\* a loop that keeps polling after FAILED
returns_now_completed_only(resp) == resp.status = "COMPLETED"

returns_now_on_unknown(resp) == resp.status \in Terminal \cup {"UNKNOWN"}

\* lines 179-191: what the loop body does with a response
returns_now(resp) == resp.status \in Terminal

return_value(resp) ==
    IF resp.status = "COMPLETED" THEN get_output(resp) ELSE Dict(resp)

\* lines 172-173
WaitStart(T, P) ==
    /\ cpc = "idle"
    /\ timeout' = T
    /\ poll_interval' = P
    /\ start_time' = now
    /\ cpc' = "test"
    /\ UNCHANGED <<now, status_response, seen, sleeps, pollTime, retval>>
    /\ UNCHANGED hvars

\* line 175, and lines 195-196 when the condition is false
LoopTest ==
    /\ cpc = "test"
    /\ IF loop_continues(now, start_time, timeout)
       THEN cpc' = "poll" /\ UNCHANGED retval
       ELSE cpc' = "returned" /\ retval' = NoneVal
    /\ UNCHANGED <<timeout, poll_interval, now, start_time, status_response,
                   seen, sleeps, pollTime>>
    /\ UNCHANGED hvars

\* lines 176-177: check_job_status(job_id) (lines 144-157) taking d seconds
CheckJobStatus(resp, d) ==
    /\ cpc = "poll"
    /\ status_response' = resp
    /\ seen' = Append(seen, resp.status)
    /\ now' = now + d
    /\ pollTime' = pollTime + d
    /\ cpc' = "dispatch"
    /\ UNCHANGED <<timeout, poll_interval, start_time, sleeps, retval>>
    /\ UNCHANGED hvars

\* lines 179-191
Dispatch ==
    /\ cpc = "dispatch"
    /\ IF returns_now(status_response)
       THEN cpc' = "returned" /\ retval' = return_value(status_response)
       ELSE cpc' = "sleep" /\ UNCHANGED retval
    /\ UNCHANGED <<timeout, poll_interval, now, start_time, status_response,
                   seen, sleeps, pollTime>>
    /\ UNCHANGED hvars

\* line 193: time.sleep(poll_interval)
Sleep ==
    /\ cpc = "sleep"
    /\ now' = now + poll_interval
    /\ sleeps' = sleeps + 1
    /\ cpc' = "test"
    /\ UNCHANGED <<timeout, poll_interval, start_time, status_response,
                   seen, pollTime, retval>>
    /\ UNCHANGED hvars

---------------------------------------------------------------------------
(* client_example.py: the module-level checks and main() *)

Running == -1

NoArgs == [filename |-> <<>>, skip_upload |-> FALSE]

\* sys.exit(code), or the interpreter ending with code 1 on an exception
\* nobody catches, or main() returning (code 0); why is kept in the record
\* of what the run did
Exit(code, why) ==
    /\ mpc' = "exited"
    /\ exit_code' = code
    /\ mlog' = Append(mlog, why)

Goto(next, what) ==
    /\ mpc' = next
    /\ mlog' = Append(mlog, what)
    /\ UNCHANGED exit_code

WaitUnchanged ==
    UNCHANGED <<cpc, timeout, poll_interval, now, start_time, status_response,
                seen, sleeps, pollTime, retval>>

\* lines 35-51 and 212-228: the configuration checks, then parse_args
Start(have_key, have_endpoint, f, skip) ==
    /\ mpc = "start"
    /\ IF ~have_key \/ ~have_endpoint
       THEN Exit(1, "config_missing") /\ UNCHANGED args
       ELSE /\ Goto("upload", "configured")
            /\ args' = [filename |-> f, skip_upload |-> skip]
    /\ WaitUnchanged
    /\ UNCHANGED hvars

\* what s3.upload_file can do (line 84)
UploadOutcomes == {"ok", "ClientError", "FileNotFoundError", "S3UploadFailedError"}

\* lines 230-234 and upload_to_process (lines 79-92): ClientError and
\* FileNotFoundError end in sys.exit(1), any other exception is not caught
UploadToProcess(outcome) ==
    /\ mpc = "upload"
    /\ IF args.skip_upload
       THEN Goto("trigger", "upload_skipped") /\ UNCHANGED s3store
       ELSE IF outcome = "ok"
            THEN /\ s3store' = put_object(s3store, upload_to_process_key(args.filename),
                                          [kind |-> "input", of |-> args.filename, by |-> 0])
                 /\ Goto("trigger", "uploaded")
            ELSE Exit(1, "upload_failed") /\ UNCHANGED s3store
    /\ WaitUnchanged
    /\ UNCHANGED <<args, env, dirs, files, pc, loc, result, ops>>

\* what the POST of line 120 can give: a response with an id, a response
\* without one, or a RequestException
TriggerOutcomes == {"id", "no_id", "RequestException"}

\* lines 237-245 and trigger_job (lines 105-131)
TriggerJob(outcome) ==
    /\ mpc = "trigger"
    /\ CASE outcome = "RequestException" -> Exit(1, "submit_failed")
         [] outcome = "no_id" -> Exit(1, "no_job_id")
         [] OTHER -> Goto("wait", "submitted")
    /\ WaitUnchanged
    /\ UNCHANGED args
    /\ UNCHANGED hvars

\* line 248: the call of wait_for_completion
MainWait(T, P) ==
    /\ mpc = "wait"
    /\ WaitStart(T, P)
    /\ Goto("waiting", "wait_called")
    /\ UNCHANGED args

\* lines 250-259: what main does with the value wait_for_completion returned
Report ==
    /\ mpc = "waiting"
    /\ cpc = "returned"
    /\ IF retval = NoneVal
       THEN Exit(1, "no_result")
       ELSE IF retval.v.status = "success"
            THEN Goto("check", "result_success")
            ELSE Exit(0, "result_other")
    /\ WaitUnchanged
    /\ UNCHANGED args
    /\ UNCHANGED hvars

\* what s3.head_object can do (line 205): succeed, raise ClientError (object
\* absent or access denied), or raise an error that is not a ClientError
\* (no connection, no credentials)
LookupOutcomes == {"found", "ClientError", "EndpointConnectionError"}

\* check_output_exists (lines 199-208): True, False, or the exception it
\* does not catch
check_output_exists(outcome) ==
    CASE outcome = "found" -> "check_true"
      [] outcome = "ClientError" -> "check_false"
      [] OTHER -> "check_raised"

\* lines 263-266, then the end of main
CheckOutput(outcome) ==
    /\ mpc = "check"
    /\ IF check_output_exists(outcome) = "check_raised"
       THEN Exit(1, "check_raised")
       ELSE Exit(0, check_output_exists(outcome))
    /\ WaitUnchanged
    /\ UNCHANGED args
    /\ UNCHANGED hvars

---------------------------------------------------------------------------
(* Specifications *)

\* the bucket when jobs arrive: every input was stored by the client's
\* upload_to_process (lines 80-84), and, as --skip-upload (line 217) assumes,
\* may also have been placed under the key the handler reads
InitialObjects ==
    { [key |-> upload_to_process_key(f),
       body |-> [kind |-> "input", of |-> f, by |-> 0]] : f \in Filenames }
    \cup { [key |-> input_key_of(f),
            body |-> [kind |-> "input", of |-> f, by |-> 0]] : f \in Filenames }

Init ==
    /\ env \in Envs
    /\ s3store = InitialObjects
    /\ dirs = {OutputDir, <<"/", "tmp">>}
    /\ files = {}
    /\ pc = [i \in Invs |-> "idle"]
    /\ loc = [i \in Invs |-> InitLocals]
    /\ result = [i \in Invs |-> NoResult]
    /\ ops = [i \in Invs |-> <<>>]
    /\ cpc = "idle"
    /\ timeout = 0
    /\ poll_interval = 1
    /\ now = 0
    /\ start_time = 0
    /\ status_response = NoResponse
    /\ seen = <<>>
    /\ sleeps = 0
    /\ pollTime = 0
    /\ retval = NotReturned
    /\ mpc = "start"
    /\ args = NoArgs
    /\ exit_code = Running
    /\ mlog = <<>>

NextHandler ==
    \/ \E i \in Invs, ev \in Events : Receive(i, ev) /\ UNCHANGED cvars
    \/ \E i \in Invs : Download(i) /\ UNCHANGED cvars
    \/ \E i \in Invs : RunInference(i) /\ UNCHANGED cvars
    \/ \E i \in Invs : Verify(i) /\ UNCHANGED cvars
    \/ \E i \in Invs : Upload(i) /\ UNCHANGED cvars

NextClient ==
    \/ \E T \in 0..MaxTimeout, P \in 1..MaxPollInterval :
          WaitStart(T, P) /\ UNCHANGED mvars
    \/ LoopTest /\ UNCHANGED mvars
    \/ \E resp \in Responses \cup {UnknownResponse}, d \in 0..MaxPollTime :
          CheckJobStatus(resp, d) /\ UNCHANGED mvars
    \/ Dispatch /\ UNCHANGED mvars
    \/ Sleep /\ UNCHANGED mvars

NextMain ==
    \/ \E k, e \in BOOLEAN, f \in Filenames, skip \in BOOLEAN : Start(k, e, f, skip)
    \/ \E outcome \in UploadOutcomes : UploadToProcess(outcome)
    \/ \E outcome \in TriggerOutcomes : TriggerJob(outcome)
    \/ \E T \in 0..MaxTimeout, P \in 1..MaxPollInterval : MainWait(T, P)
    \/ LoopTest /\ UNCHANGED mvars
    \/ \E resp \in Responses \cup {UnknownResponse}, d \in 0..MaxPollTime :
          CheckJobStatus(resp, d) /\ UNCHANGED mvars
    \/ Dispatch /\ UNCHANGED mvars
    \/ Sleep /\ UNCHANGED mvars
    \/ Report
    \/ \E outcome \in LookupOutcomes : CheckOutput(outcome)

SpecHandler == Init /\ [][NextHandler]_vars

SpecClient == Init /\ [][NextClient]_vars

SpecMain == Init /\ [][NextMain]_vars

SpecClientFair ==
    /\ SpecClient
    /\ WF_vars(LoopTest /\ UNCHANGED mvars)
    /\ WF_vars(Dispatch /\ UNCHANGED mvars)
    /\ WF_vars(Sleep /\ UNCHANGED mvars)
    /\ WF_vars(\E resp \in Responses \cup {UnknownResponse}, d \in 0..MaxPollTime :
                  CheckJobStatus(resp, d) /\ UNCHANGED mvars)

---------------------------------------------------------------------------
(* Properties of the handler *)

HasOp(i, op) == \E k \in DOMAIN ops[i] : ops[i][k].op = op
HasOpRc(i, op, rc) == \E k \in DOMAIN ops[i] : ops[i][k].op = op /\ ops[i][k].rc = rc
Failed(i, op) == \E k \in DOMAIN ops[i] : ops[i][k].op = op /\ ops[i][k].rc # 0

\* C1: whatever the event and whichever step fails, an invocation never lets
\* an exception escape: it is at one of its steps or has returned, and it has
\* returned exactly when it holds a result, whose status is "success" or
\* "error".
C1_AlwaysStructuredResult ==
    \A i \in Invs :
        /\ pc[i] # "raised"
        /\ pc[i] \in {"idle", "download", "infer", "verify", "upload", "returned"}
        /\ pc[i] = "returned" <=> result[i] # NoResult
        /\ pc[i] = "returned" => result[i].status \in {"success", "error"}

C1_Witness ==
    \E i, j \in Invs :
        /\ pc[i] = "returned" /\ result[i].status = "success"
        /\ pc[j] = "returned" /\ result[j].status = "error"
        /\ result[j].error_type = "RuntimeError"

\* C2: when an invocation that created a working directory has returned, on
\* any path, that directory and everything in it is gone.
C2_WorkdirRemoved ==
    \A i \in Invs :
        pc[i] = "returned" =>
            \A k \in DOMAIN ops[i] :
                ops[i][k].op = "mkdtemp" =>
                    /\ ops[i][k].arg \notin dirs
                    /\ \A f \in files : ~Under(f.path, ops[i][k].arg)

C2_Witness ==
    \E i, j \in Invs :
        /\ pc[i] = "returned" /\ HasOpRc(i, "upload", 0)
        /\ pc[j] = "returned" /\ Failed(j, "run") /\ HasOp(j, "mkdtemp")

\* C3: a failed download gives an error result whose message contains the
\* filename, and the invocation neither runs the inference nor uploads.
C3_DownloadFailure ==
    \A i \in Invs :
        (pc[i] = "returned" /\ Failed(i, "download")) =>
            /\ result[i].status = "error"
            /\ Contains(result[i].message, loc[i].event.filename)
            /\ ~HasOp(i, "spawn") /\ ~HasOp(i, "run") /\ ~HasOp(i, "upload")

C3_Witness ==
    \E i \in Invs :
        /\ pc[i] = "returned" /\ Failed(i, "download")
        /\ loc[i].event.filename = <<"a", ".", "tif">>

\* C4: a non-zero exit code of the inference gives an error result whose
\* diagnostic names that exit code; the expected output file is not looked
\* up and nothing is uploaded.
C4_NonZeroExit ==
    \A i \in Invs :
        \A k \in DOMAIN ops[i] :
            (pc[i] = "returned" /\ ops[i][k].op = "run" /\ ops[i][k].rc # 0) =>
                /\ result[i].status = "error"
                /\ result[i].error_type = "CalledProcessError"
                /\ Contains(result[i].message,
                            <<" returned non-zero exit status ", ToString(ops[i][k].rc), ".">>)
                /\ ~HasOp(i, "exists") /\ ~HasOp(i, "upload")

C4_Witness ==
    \E i \in Invs : pc[i] = "returned" /\ HasOpRc(i, "run", 1)

\* C5: exit code zero with the expected output file missing gives an error
\* result without any upload, of a kind other than the one of a non-zero exit.
C5_MissingOutput ==
    \A i \in Invs :
        (pc[i] = "returned" /\ HasOpRc(i, "run", 0) /\ Failed(i, "exists")) =>
            /\ result[i].status = "error"
            /\ ~HasOp(i, "upload")
            /\ result[i].error_type = "RuntimeError"
            /\ \A rc \in 1..MaxExitCode :
                  result[i].error_type
                      # CalledProcessError(loc[i].local_in, rc, <<>>, <<>>).type

C5_Witness ==
    \E i \in Invs : pc[i] = "returned" /\ HasOpRc(i, "run", 0) /\ Failed(i, "exists")

C7_DownloadKeyIsUploadKey ==
    \A i \in Invs :
        \A k \in DOMAIN ops[i] :
            ops[i][k].op = "download" =>
                /\ ops[i][k].arg = env.DEM_INPUT_PREFIX \o loc[i].event.filename
                /\ ops[i][k].arg = upload_to_process_key(loc[i].event.filename)

\* C8: after a success result for filename F the output object is stored at
\* output_prefix ++ F, the key check_output_exists(F) looks up.
C8_OutputAtAnnouncedKey ==
    \A i \in Invs :
        result[i].status = "success" =>
            \E o \in s3store :
                /\ o.key = check_output_exists_key(loc[i].event.filename)
                /\ o.body.kind = "output"

---------------------------------------------------------------------------
(* Properties of wait_for_completion *)

NoTerminalSeen == \A k \in DOMAIN seen : seen[k] \notin Terminal

CeilDiv(a, b) == (a + b - 1) \div b

\* C9: the first poll that observes COMPLETED or FAILED is the last poll, no
\* sleep follows it, and the call returns the output payload for COMPLETED
\* and the whole status payload for FAILED.
C9_ReturnAtFirstTerminal ==
    /\ \A k \in DOMAIN seen :
          seen[k] \in Terminal =>
              /\ k = Len(seen)
              /\ sleeps = Len(seen) - 1
              /\ cpc \in {"dispatch", "returned"}
    /\ (cpc = "returned" /\ ~NoTerminalSeen) =>
          /\ status_response.status = "COMPLETED" =>
                retval = IF status_response.has_output
                         THEN [t |-> "dict", v |-> status_response.output]
                         ELSE [t |-> "None"]
          /\ status_response.status = "FAILED" =>
                retval = [t |-> "dict", v |-> status_response]

C9_Witness ==
    /\ cpc = "returned"
    /\ seen = <<"IN_QUEUE", "IN_PROGRESS", "COMPLETED">>
    /\ retval = [t |-> "dict", v |-> [status |-> "success"]]
    /\ sleeps = 2

C10_Bounds ==
    NoTerminalSeen =>
        /\ Len(seen) <= CeilDiv(timeout, poll_interval)
        /\ cpc = "returned" =>
              /\ retval = [t |-> "None"]
              /\ now - start_time >= timeout
              /\ pollTime = 0 => now - start_time < timeout + poll_interval

\* C10: while no poll observes COMPLETED or FAILED, at most ceil(T/P) polls
\* are made and the call returns None at an elapsed time of at least T, and
\* of less than T + P when the polls take no time; a call that has started
\* always returns.
C10_TimeoutTerminates ==
    []C10_Bounds /\ (cpc = "test" ~> cpc = "returned")

C10_Witness ==
    /\ cpc = "returned"
    /\ NoTerminalSeen
    /\ timeout = 3 /\ poll_interval = 2
    /\ Len(seen) = 2 /\ pollTime = 0
    /\ now - start_time = 4

\* C11: wait_for_completion returns None exactly when the timeout elapsed
\* with no poll having observed COMPLETED or FAILED.
C11_NoneOnlyOnTimeout ==
    cpc = "returned" => (retval = [t |-> "None"] <=> NoTerminalSeen)

---------------------------------------------------------------------------
(* Further properties of the handler *)

NoFilename(ev) ==
    \/ ev.kind \in {"no_input", "no_filename"}
    \/ ev.kind = "filename_str" /\ ev.filename = <<>>

\* C14: a request without a filename (absent or empty) gets an error result
\* whose message names "unknown file".
C14_UnknownFileMessage ==
    \A i \in Invs :
        (pc[i] = "returned" /\ NoFilename(loc[i].event)) =>
            /\ result[i].status = "error"
            /\ Contains(result[i].message, <<"unknown file">>)

\* C15: after a non-zero exit of the inference the error result carries the
\* captured standard output and standard error, and the exit code.
C15_ResultCarriesOutput ==
    \A i \in Invs :
        \A k \in DOMAIN ops[i] :
            (pc[i] = "returned" /\ ops[i][k].op = "run" /\ ops[i][k].rc # 0) =>
                LET text == result[i].message \o result[i].traceback
                IN /\ result[i].status = "error"
                   /\ Contains(text, <<ToString(ops[i][k].rc)>>)
                   /\ Contains(text, <<"stdout">>)
                   /\ Contains(text, <<"stderr">>)

Before(i, k, op, rc) ==
    \E j \in 1..(k - 1) : ops[i][j].op = op /\ ops[i][j].rc = rc

\* C17: in one invocation every step is attempted at most once and only
\* after the earlier ones succeeded: download after validation and the
\* creation of the working directory, inference after a successful download,
\* the lookup of the output after a zero exit, upload after both; a request
\* that fails validation creates no directory and performs no operation.
C17_StepOrder ==
    \A i \in Invs :
        /\ \A j, k \in DOMAIN ops[i] : ops[i][j].op = ops[i][k].op => j = k
        /\ ~(HasOp(i, "spawn") /\ HasOp(i, "run"))
        /\ \A k \in DOMAIN ops[i] :
              /\ ops[i][k].op \in {"mkdtemp", "download"} =>
                    loc[i].event.kind = "filename_str" /\ loc[i].event.filename # <<>>
              /\ ops[i][k].op = "download" => Before(i, k, "mkdtemp", 0)
              /\ ops[i][k].op \in {"run", "spawn"} => Before(i, k, "download", 0)
              /\ ops[i][k].op = "exists" => Before(i, k, "run", 0)
              /\ ops[i][k].op = "upload" =>
                    Before(i, k, "run", 0) /\ Before(i, k, "exists", 0)
        /\ (pc[i] # "idle" /\ (loc[i].event.kind # "filename_str" \/ loc[i].event.filename = <<>>)) =>
              /\ ops[i] = <<>>
              /\ tmpdir(i) \notin dirs
              /\ pc[i] = "returned"

C17_Witness ==
    \E i, j \in Invs :
        /\ pc[i] = "returned" /\ Len(ops[i]) = 5 /\ HasOpRc(i, "upload", 0)
        /\ pc[j] = "returned" /\ loc[j].event.kind = "filename_str"
        /\ loc[j].event.filename = <<>> /\ ops[j] = <<>>

\* C16: invocations share no local state: every downloaded input and every
\* inference output lies inside the working directory of the invocation that
\* wrote it, every lookup is made there, and no invocation uploads a file
\* written by another one.
C16_IsolatedLocalFiles ==
    /\ \A f \in files :
          /\ f.body.kind = "output" => Under(f.path, tmpdir(f.body.by))
          /\ f.body.kind = "input" =>
                \E i \in Invs : f.path = loc[i].local_in /\ Under(f.path, tmpdir(i))
    /\ \A i \in Invs :
          /\ \A k \in DOMAIN ops[i] :
                ops[i][k].op = "exists" => Under(ops[i][k].arg, tmpdir(i))
          /\ loc[i].uploaded # NoBody => loc[i].uploaded.by = i

\* C19: a success result means that the uploaded file was written by this
\* invocation's own inference run; an invocation whose inference exits zero
\* without writing its output returns an error and uploads nothing.
C19_UploadsOwnOutput ==
    \A i \in Invs :
        /\ result[i].status = "success" =>
              /\ loc[i].wrote
              /\ loc[i].uploaded.kind = "output" /\ loc[i].uploaded.by = i
        /\ (pc[i] = "returned" /\ HasOpRc(i, "run", 0) /\ ~loc[i].wrote) =>
              /\ result[i].status = "error"
              /\ ~HasOp(i, "upload")

\* C18: a poll that observes UNKNOWN, IN_QUEUE, IN_PROGRESS or any other
\* status that is not COMPLETED or FAILED does not end the wait: it is
\* followed by one sleep of poll_interval and the loop test, the call returns
\* None after such observations only when the timeout has elapsed, and a
\* COMPLETED or FAILED status observed after them is what the call returns.
C18_NonTerminalKeepsPolling ==
    /\ cpc = "sleep" =>
          /\ seen[Len(seen)] \notin Terminal
          /\ sleeps = Len(seen) - 1
          /\ retval = NotReturned
    /\ cpc \in {"test", "poll"} =>
          /\ NoTerminalSeen
          /\ sleeps = Len(seen)
          /\ retval = NotReturned
    /\ cpc # "idle" => now - start_time = sleeps * poll_interval + pollTime
    /\ cpc = "returned" =>
          IF NoTerminalSeen
          THEN /\ retval = NoneVal
               /\ now - start_time >= timeout
               /\ sleeps = Len(seen)
          ELSE /\ seen[Len(seen)] \in Terminal
               /\ sleeps = Len(seen) - 1
               /\ retval = return_value(status_response)

C18_Witness ==
    /\ cpc = "returned"
    /\ seen = <<"UNKNOWN", "IN_PROGRESS", "FAILED">>
    /\ sleeps = 2
    /\ retval = Dict(status_response)

InLog(what) == \E k \in DOMAIN mlog : mlog[k] = what

\* the wait ended because the timeout elapsed
TimedOut == cpc = "returned" /\ NoTerminalSeen /\ now - start_time >= timeout

\* C12: a run of the client that has exited has exit code 1 exactly when the
\* configuration was missing, the upload failed, the submission failed or
\* gave no job id, or the wait timed out; otherwise its exit code is 0.
C12_ExitCodes ==
    mpc = "exited" =>
        /\ exit_code \in {0, 1}
        /\ exit_code = 1 <=>
              \/ InLog("config_missing")
              \/ InLog("upload_failed")
              \/ InLog("submit_failed")
              \/ InLog("no_job_id")
              \/ TimedOut

Checked == InLog("check_true") \/ InLog("check_false") \/ InLog("check_raised")

\* C13: the lookup of the output object never raises, it is made only after
\* a result payload with status "success", and a run that made it exits
\* with code 0, the code it has when the check is left out.
C13_CheckIsInformational ==
    /\ ~InLog("check_raised")
    /\ (mpc = "check" \/ Checked) => retval = Dict([status |-> "success"])
    /\ (mpc = "exited" /\ Checked) => exit_code = 0

====
